---------------------------- MODULE Spec2Model ----------------------------
(***************************************************************************)
(* A model of src/Webscraping.py: class QuotesETL, a three-stage pipeline  *)
(* (paginated extraction, cleaning + deduplication, validation + load).    *)
(*                                                                         *)
(* Strings are sequences of characters.  A character is written by its     *)
(* code point, "U+0041".  Timestamps (time.time()) are left out of the     *)
(* records: no decision of the program reads them.                         *)
(***************************************************************************)
EXTENDS Integers, Sequences, FiniteSets, TLC

(***************************************************************************)
(* Characters                                                              *)
(***************************************************************************)
cSP    == "U+0020"   \* space
cLF    == "U+000A"   \* line feed
cNBSP  == "U+00A0"   \* no-break space
cBang  == "U+0021"   \* !
cUpA   == "U+0041"   \* A
cLowA  == "U+0061"   \* a
cLowB  == "U+0062"   \* b
cLowU  == "U+0075"   \* u
cAdia  == "U+00C4"   \* A with diaeresis (precomposed)
cadia  == "U+00E4"   \* a with diaeresis (precomposed)
cUgrv  == "U+00F9"   \* u with grave (precomposed)
cUact  == "U+00FA"   \* u with acute (precomposed)
cGrave == "U+0300"   \* combining grave
cAcute == "U+0301"   \* combining acute
cDiaer == "U+0308"   \* combining diaeresis
cLow9  == "U+201A"   \* single low-9 quotation mark
cLDQ   == "U+201C"   \* left double quotation mark
cRDQ   == "U+201D"   \* right double quotation mark

\* str.isspace(), which str.strip() and the regex class \s both use.
IsSpace(c) == c \in {cSP, cLF, cNBSP}

\* The regex class \w on str patterns: letters, digits, underscore.
IsWord(c) == c \in {cUpA, cLowA, cLowB, cLowU, cAdia, cadia, cUgrv, cUact}

\* str.lower() on one character.
LowerChar(c) ==
    CASE c = cUpA  -> cLowA
      [] c = cAdia -> cadia
      [] OTHER     -> c

\* unicodedata.normalize("NFKD", c) for one character: the full compatibility
\* decomposition.  The three combining marks share one combining class, so
\* NFKD of a string is the concatenation of its characters' decompositions.
NFKDChar(c) ==
    CASE c = cAdia -> <<cUpA,  cDiaer>>
      [] c = cadia -> <<cLowA, cDiaer>>
      [] c = cUgrv -> <<cLowU, cGrave>>
      [] c = cUact -> <<cLowU, cAcute>>
      [] c = cNBSP -> <<cSP>>
      [] OTHER     -> <<c>>

RECURSIVE NFKD(_)
NFKD(s) == IF s = <<>> THEN <<>> ELSE NFKDChar(Head(s)) \o NFKD(Tail(s))

RECURSIVE Lower(_)
Lower(s) == IF s = <<>> THEN <<>> ELSE <<LowerChar(Head(s))>> \o Lower(Tail(s))

(***************************************************************************)
(* String primitives of Python used by the cleaners                        *)
(***************************************************************************)
RECURSIVE LStrip(_)
LStrip(s) == IF s # <<>> /\ IsSpace(Head(s)) THEN LStrip(Tail(s)) ELSE s

RECURSIVE RStrip(_)
RStrip(s) ==
    IF s # <<>> /\ IsSpace(s[Len(s)]) THEN RStrip(SubSeq(s, 1, Len(s) - 1)) ELSE s

\* str.strip()
Strip(s) == RStrip(LStrip(s))

\* str.startswith / str.endswith
StartsWith(s, p) == Len(p) <= Len(s) /\ SubSeq(s, 1, Len(p)) = p
EndsWith(s, p) == Len(p) <= Len(s) /\ SubSeq(s, Len(s) - Len(p) + 1, Len(s)) = p

\* s[1:-1]
DropEnds(s) == SubSeq(s, 2, Len(s) - 1)

\* re.sub(r'\s+', ' ', s): every maximal run of whitespace becomes one space.
RECURSIVE CollapseWs(_)
CollapseWs(s) ==
    IF s = <<>> THEN <<>>
    ELSE IF IsSpace(Head(s)) THEN <<cSP>> \o CollapseWs(LStrip(s))
    ELSE <<Head(s)>> \o CollapseWs(Tail(s))

\* s.replace('\n', ' ').replace('\r', ' ').replace('\t', ' ')
RECURSIVE ReplaceCtl(_)
ReplaceCtl(s) ==
    IF s = <<>> THEN <<>>
    ELSE <<IF Head(s) = cLF THEN cSP ELSE Head(s)>> \o ReplaceCtl(Tail(s))

\* re.sub(r'[^\w\s\-\.]', '', s)
RECURSIVE KeepNameChars(_)
KeepNameChars(s) ==
    IF s = <<>> THEN <<>>
    ELSE (IF IsWord(Head(s)) \/ IsSpace(Head(s)) THEN <<Head(s)>> ELSE <<>>)
         \o KeepNameChars(Tail(s))

\* len(s.split()): the number of maximal runs of non-whitespace, counted by
\* their last characters.
WordCount(s) ==
    Cardinality({i \in 1..Len(s) :
                    ~IsSpace(s[i]) /\ (i = Len(s) \/ IsSpace(s[i + 1]))})

(***************************************************************************)
(* FieldNormalizer: clean_quote_text, clean_author_name                    *)
(***************************************************************************)
\* The two string literals of line 199, as the file holds them: each is three
\* characters long, U+201A U+00C4 U+00FA and U+201A U+00C4 U+00F9.
OpenQuoteLiteral  == <<cLow9, cAdia, cUact>>
CloseQuoteLiteral == <<cLow9, cAdia, cUgrv>>

clean_quote_text_with(raw_text, open, close) ==
    IF raw_text = <<>> THEN <<>>
    ELSE LET normalized == NFKD(raw_text)
             stripped   == Strip(normalized)
             unquoted   == IF StartsWith(stripped, open) /\ EndsWith(stripped, close)
                           THEN DropEnds(stripped) ELSE stripped
         IN  Strip(ReplaceCtl(CollapseWs(unquoted)))

\* A variant whose literals are the one-character curly quotes.
clean_quote_text_curly(raw_text) ==
    clean_quote_text_with(raw_text, <<cLDQ>>, <<cRDQ>>)

clean_quote_text(raw_text) ==
    clean_quote_text_with(raw_text, OpenQuoteLiteral, CloseQuoteLiteral)

clean_author_name(raw_author) ==
    IF raw_author = <<>> THEN <<>>
    ELSE Strip(KeepNameChars(CollapseWs(Strip(raw_author))))


(***************************************************************************)
(* Optional values: None, or Some(x)                                       *)
(***************************************************************************)
None == <<>>
Some(x) == <<x>>
Val(o) == o[1]

(***************************************************************************)
(* The web site the pipeline reads.  A page is known by its URL; it holds  *)
(* record blocks in document order and at most one "next" link.  A block   *)
(* holds the text of its span.text and small.author elements (empty when   *)
(* the element is absent); raises marks a block whose extraction throws.   *)
(***************************************************************************)
NPages == 3
Pages == 1..NPages

Block(text, author, raises) == [text |-> text, author |-> author, raises |-> raises]

TextA == <<cLowA, cLowB, cSP, cLowA, cLowB, cLowA>>
TextB == <<cLDQ, cLowB, cLowB, cLF, cSP, cLowA, cLowB, cRDQ>>
TextC == <<cLowB, cLowA, cLowA, cLowA, cLowB>>
TextShort == <<cLowA, cLowB>>
AuthorA == <<cUpA, cLowB>>
AuthorB == <<cSP, cLowB, cLowA, cBang>>

BlockA       == Block(TextA, AuthorA, FALSE)
BlockB       == Block(TextB, AuthorB, FALSE)
BlockC       == Block(TextC, AuthorA, FALSE)
BlockNoAuth  == Block(TextC, <<>>, FALSE)
BlockNoText  == Block(<<>>, AuthorA, FALSE)
BlockShort   == Block(TextShort, AuthorA, FALSE)
BlockRaises  == Block(TextA, AuthorA, TRUE)

\* All sites whose pages 1..n hold one of the given contents and link among
\* themselves, the other pages being blank.
Sites(n, contents) ==
    {[p \in Pages |-> IF p <= n THEN f[p] ELSE [blocks |-> <<>>, next |-> None]] :
        f \in [1..n -> [blocks : contents, next : {None} \cup {Some(p) : p \in 1..n}]]}

(***************************************************************************)
(* State                                                                   *)
(***************************************************************************)
VARIABLES
    site,             \* the web site (never changes)
    pc,               \* "idle", or the place a running call is at
    caller,           \* who called extract_all_pages: "user" or "pipeline"
    arg,              \* the argument of the current (or last) call
    ret,              \* the list the last call returned
    success,          \* the flag the last call returned: "True", "False", "none"
    calls,            \* the number of calls made on the instance
    max_pages,        \* extract_all_pages: parameter
    current_url,      \* extract_all_pages: local
    page_count,       \* extract_all_pages: local
    all_raw_data,     \* extract_all_pages: local
    metrics,          \* self.metrics
    raw_data,         \* self.raw_data
    transformed_data, \* self.transformed_data
    final_data,       \* self.final_data
    log,              \* history: the events of the current (or last) call
    metrics0          \* history: self.metrics when the current call began

vars == <<site, pc, caller, arg, ret, success, calls, max_pages, current_url, page_count,
          all_raw_data, metrics, raw_data, transformed_data, final_data, log,
          metrics0>>

Metrics0 ==
    [total_pages_scraped |-> 0, total_quotes_extracted |-> 0,
     total_quotes_cleaned |-> 0, errors_encountered |-> 0,
     duplicate_quotes_removed |-> 0]

\* QuotesETL.__init__, for a given site and a first argument.
Construct(s, a) ==
    /\ site = s
    /\ pc = "idle"
    /\ caller = "user"
    /\ arg = a
    /\ ret = <<>>
    /\ success = "none"
    /\ calls = 0
    /\ max_pages = None
    /\ current_url = None
    /\ page_count = 0
    /\ all_raw_data = <<>>
    /\ metrics = Metrics0
    /\ raw_data = <<>>
    /\ transformed_data = <<>>
    /\ final_data = <<>>
    /\ log = <<>>
    /\ metrics0 = Metrics0

\* Events of the history.
FetchEv(url, ok) == [ev |-> "fetch", url |-> url, ok |-> ok]
SleepEv == [ev |-> "sleep"]
StageEv(name) == [ev |-> "stage", stage |-> name]
WriteEv(file, ok) == [ev |-> "write", file |-> file, ok |-> ok]

(***************************************************************************)
(* Extract phase                                                           *)
(***************************************************************************)
RawRecord(b, url, idx) ==
    [raw_text |-> b.text, raw_author |-> b.author,
     source_url |-> url, extraction_order |-> idx]

\* extract_quotes_from_soup: the raw records of the page's blocks, in document
\* order; a block that raises is skipped and counted.
RECURSIVE ExtractFrom(_, _, _)
ExtractFrom(blocks, url, idx) ==
    IF idx > Len(blocks) THEN <<>>
    ELSE (IF blocks[idx].raises THEN <<>>
          ELSE <<RawRecord(blocks[idx], url, idx - 1)>>)
         \o ExtractFrom(blocks, url, idx + 1)

\* A variant that reads the first block only (find for find_all).
extract_quotes_from_soup_first_only(url) ==
    ExtractFrom(IF site[url].blocks = <<>> THEN <<>> ELSE <<Head(site[url].blocks)>>, url, 1)

extract_quotes_from_soup(url) == ExtractFrom(site[url].blocks, url, 1)

ExtractErrors(url) ==
    Cardinality({i \in 1..Len(site[url].blocks) : site[url].blocks[i].raises})

\* extract_next_page_url
extract_next_page_url(url) == site[url].next

\* A variant of the loop condition that lets the page count reach past the cap.
LoopCondInclusive(url, count, cap) ==
    IF url = None THEN FALSE
    ELSE IF cap = None THEN TRUE
    ELSE count <= Val(cap)

\* A variant of the loop condition that tests the cap for truth, so that 0
\* counts as no cap.
LoopCondFalsyCap(url, count, cap) ==
    IF url = None THEN FALSE
    ELSE IF cap = None \/ cap = Some(0) THEN TRUE
    ELSE count < Val(cap)

\* The condition of the while loop of extract_all_pages.
LoopCond(url, count, cap) ==
    IF url = None THEN FALSE
    ELSE IF cap = None THEN TRUE
    ELSE count < Val(cap)


(***************************************************************************)
(* Transform phase                                                         *)
(***************************************************************************)
\* A variant without the test of line 300.
transform_single_quote_unchecked(raw_quote) ==
    Some([quote_text       |-> clean_quote_text(raw_quote.raw_text),
          author           |-> clean_author_name(raw_quote.raw_author),
          source_url       |-> raw_quote.source_url,
          extraction_order |-> raw_quote.extraction_order,
          word_count       |-> WordCount(raw_quote.raw_text),
          character_count  |-> Len(raw_quote.raw_text)])

\* transform_single_quote: Some(clean record), or None when the cleaned text
\* or the cleaned author is empty.  The except branch (lines 305-308) needs a
\* field that is no string; the extract phase builds none.
transform_single_quote(raw_quote) ==
    LET transformed_quote ==
            [quote_text       |-> clean_quote_text(raw_quote.raw_text),
             author           |-> clean_author_name(raw_quote.raw_author),
             source_url       |-> raw_quote.source_url,
             extraction_order |-> raw_quote.extraction_order,
             word_count       |-> WordCount(raw_quote.raw_text),
             character_count  |-> Len(raw_quote.raw_text)]
    IN  IF transformed_quote.quote_text = <<>> \/ transformed_quote.author = <<>>
        THEN None
        ELSE Some(transformed_quote)

\* A key that keeps the letters' case.
DedupKeyExact(quote) == <<quote.quote_text, quote.author>>

\* The key of line 325.
DedupKey(quote) == <<Lower(quote.quote_text), Lower(quote.author)>>

\* The loop of remove_duplicates over quotes[i..], seen being the keys met so
\* far: .out is the kept records, .removed the number of records dropped.
RECURSIVE DedupLoop(_, _, _)
DedupLoop(quotes, i, seen) ==
    IF i > Len(quotes) THEN [out |-> <<>>, removed |-> 0]
    ELSE LET key == DedupKey(quotes[i])
         IN  IF key \notin seen
             THEN LET rest == DedupLoop(quotes, i + 1, seen \cup {key})
                  IN  [out |-> <<quotes[i]>> \o rest.out, removed |-> rest.removed]
             ELSE LET rest == DedupLoop(quotes, i + 1, seen)
                  IN  [out |-> rest.out, removed |-> rest.removed + 1]

\* A variant that drops the duplicates without counting them.
remove_duplicates_uncounted(quotes) ==
    [out |-> DedupLoop(quotes, 1, {}).out, removed |-> 0]

\* remove_duplicates: .out is the returned list, .removed what it adds to
\* duplicate_quotes_removed.
remove_duplicates(quotes) == DedupLoop(quotes, 1, {})

\* The for loop of transform_all_quotes (lines 349-352).
RECURSIVE TransformEach(_)
TransformEach(raw_quotes) ==
    IF raw_quotes = <<>> THEN <<>>
    ELSE transform_single_quote(Head(raw_quotes)) \o TransformEach(Tail(raw_quotes))

\* A variant that overwrites duplicate_quotes_removed instead of adding to it.
transform_all_quotes_resets_duplicates(raw_quotes, m) ==
    LET unique == remove_duplicates(TransformEach(raw_quotes))
    IN  [out     |-> unique.out,
         metrics |-> [m EXCEPT !.duplicate_quotes_removed = unique.removed,
                               !.total_quotes_cleaned = Len(unique.out)]]

\* transform_all_quotes: .out is the returned list (also self.transformed_data),
\* .metrics the metrics after the call.
transform_all_quotes(raw_quotes, m) ==
    LET unique == remove_duplicates(TransformEach(raw_quotes))
    IN  [out     |-> unique.out,
         metrics |-> [m EXCEPT !.duplicate_quotes_removed = @ + unique.removed,
                               !.total_quotes_cleaned = Len(unique.out)]]

(***************************************************************************)
(* Load phase                                                              *)
(***************************************************************************)
MinTextLen == 5
MinAuthorLen == 2
MaxTextLen == 1000

\* A test that measures the stored fields only.
IsValidStored(quote) ==
    /\ Len(quote.quote_text) >= MinTextLen
    /\ Len(quote.author) >= MinAuthorLen
    /\ Len(quote.quote_text) <= MaxTextLen

\* The test of validate_data on one record (lines 381-392).
IsValid(quote) ==
    /\ ~(quote.quote_text = <<>> \/ Len(Strip(quote.quote_text)) < MinTextLen)
    /\ ~(quote.author = <<>> \/ Len(Strip(quote.author)) < MinAuthorLen)
    /\ ~(Len(quote.quote_text) > MaxTextLen)

RECURSIVE ValidateLoop(_)
ValidateLoop(quotes) ==
    IF quotes = <<>> THEN [out |-> <<>>, errors |-> 0]
    ELSE LET rest == ValidateLoop(Tail(quotes))
         IN  IF IsValid(Head(quotes))
             THEN [out |-> <<Head(quotes)>> \o rest.out, errors |-> rest.errors]
             ELSE [out |-> rest.out, errors |-> rest.errors + 1]

\* validate_data: .out is the returned list, .errors what it adds to
\* errors_encountered.
validate_data(quotes) == ValidateLoop(quotes)

\* A variant whose result forgets the report's write.
load_data_ignores_report(quotes, m, csv_ok, json_ok, report_ok) ==
    LET valid == validate_data(quotes)
        m2    == [m EXCEPT !.errors_encountered = @ + valid.errors]
    IN  IF valid.out = <<>>
        THEN [metrics |-> m2, wrote |-> FALSE, valid |-> valid.out, result |-> FALSE]
        ELSE [metrics |-> m2, wrote |-> TRUE, valid |-> valid.out,
              result |-> csv_ok /\ json_ok]

\* load_data: validation, then the three writes, whose outcomes the file system
\* decides.  .entered_writes tells whether line 522 let the writes happen.
load_data(quotes, m, csv_ok, json_ok, report_ok) ==
    LET valid == validate_data(quotes)
        m2    == [m EXCEPT !.errors_encountered = @ + valid.errors]
    IN  IF valid.out = <<>>
        THEN [metrics |-> m2, wrote |-> FALSE, valid |-> valid.out, result |-> FALSE]
        ELSE [metrics |-> m2, wrote |-> TRUE, valid |-> valid.out,
              result |-> csv_ok /\ json_ok /\ report_ok]

(***************************************************************************)
(* Bounds of the model                                                     *)
(***************************************************************************)
MaxCalls == 2      \* calls made on one instance
MaxFetches == 4    \* fetches of one extract_all_pages call (a cyclic site
                   \* without a page cap never ends)
MaxCap == 3        \* the largest page cap tried

Caps == {None} \cup {Some(c) : c \in 0..MaxCap}

Bool(b) == IF b THEN "True" ELSE "False"

(***************************************************************************)
(* extract_all_pages                                                       *)
(***************************************************************************)
\* Lines 150-154: the locals before the loop.
BeginExtract(start, cap, who, events) ==
    /\ pc' = "extract_loop"
    /\ caller' = who
    /\ arg' = <<start>>
    /\ max_pages' = cap
    /\ current_url' = Some(start)
    /\ page_count' = 0
    /\ all_raw_data' = <<>>
    /\ log' = events
    /\ metrics0' = metrics
    /\ calls' = calls + 1
    /\ ret' = <<>>
    /\ success' = "none"
    /\ UNCHANGED <<site, metrics, raw_data, transformed_data, final_data>>

\* A call of extract_all_pages(start_url, max_pages) from outside.
CallExtractAllPages(limit) ==
    /\ pc = "idle"
    /\ calls < limit
    /\ \E start \in Pages, cap \in Caps : BeginExtract(start, cap, "user", <<>>)

\* Lines 183-185, and the return to the caller: the user, or line 568 of
\* run_etl_pipeline.
ExtractReturns ==
    /\ raw_data' = all_raw_data
    /\ IF caller = "user"
       THEN pc' = "idle" /\ ret' = all_raw_data /\ success' = "none"
       ELSE IF all_raw_data = <<>>
            THEN pc' = "idle" /\ ret' = ret /\ success' = "False"
            ELSE pc' = "transform" /\ ret' = ret /\ success' = success
    /\ UNCHANGED <<site, caller, arg, calls, max_pages, current_url, page_count,
                   all_raw_data, transformed_data, final_data, metrics0>>

\* One pass of the loop body with a successful fetch (lines 158-181).
FetchOk ==
    /\ pc = "extract_loop"
    /\ LoopCond(current_url, page_count, max_pages)
    /\ page_count < MaxFetches
    /\ LET url         == Val(current_url)
           page_quotes == extract_quotes_from_soup(url)
           next_url    == extract_next_page_url(url)
       IN  /\ all_raw_data' = all_raw_data \o page_quotes
           /\ metrics' = [metrics EXCEPT
                            !.errors_encountered = @ + ExtractErrors(url),
                            !.total_pages_scraped = @ + 1,
                            !.total_quotes_extracted = @ + Len(page_quotes)]
           /\ current_url' = next_url
           /\ page_count' = page_count + 1
           /\ log' = log \o <<FetchEv(url, TRUE)>>
                         \o (IF next_url # None THEN <<SleepEv>> ELSE <<>>)
    /\ UNCHANGED <<site, pc, caller, arg, ret, success, calls, max_pages, raw_data,
                   transformed_data, final_data, metrics0>>

\* A variant of the failing pass that goes on with the loop (continue for
\* break).
FetchFailContinues ==
    /\ pc = "extract_loop"
    /\ LoopCond(current_url, page_count, max_pages)
    /\ page_count < MaxFetches
    /\ metrics' = [metrics EXCEPT !.errors_encountered = @ + 1]
    /\ log' = Append(log, FetchEv(Val(current_url), FALSE))
    /\ page_count' = page_count + 1
    /\ UNCHANGED <<site, pc, caller, arg, ret, success, calls, max_pages, current_url,
                   all_raw_data, raw_data, transformed_data, final_data, metrics0>>

\* A pass of the loop whose fetch fails (lines 158-160, 68-71), and the return.
FetchFail ==
    /\ pc = "extract_loop"
    /\ LoopCond(current_url, page_count, max_pages)
    /\ page_count < MaxFetches
    /\ metrics' = [metrics EXCEPT !.errors_encountered = @ + 1]
    /\ log' = Append(log, FetchEv(Val(current_url), FALSE))
    /\ ExtractReturns

\* The loop condition is false (line 156), and the return.
LoopExit ==
    /\ pc = "extract_loop"
    /\ ~LoopCond(current_url, page_count, max_pages)
    /\ UNCHANGED <<metrics, log>>
    /\ ExtractReturns

(***************************************************************************)
(* SpecExtract: one call of extract_all_pages on a fresh instance, over    *)
(* every site of NPages pages (any link structure, cycles included).       *)
(***************************************************************************)
ExtractContents == {<<>>, <<BlockA, BlockB>>, <<BlockRaises, BlockC>>}

InitExtract == \E s \in Sites(NPages, ExtractContents) : Construct(s, <<>>)

NextExtract ==
    \/ CallExtractAllPages(1)
    \/ FetchOk
    \/ FetchFail
    \/ LoopExit

SpecExtract == InitExtract /\ [][NextExtract]_vars

\* What the history tells.
IsFetch(e) == e.ev = "fetch"
Fetches(events) == SelectSeq(events, IsFetch)
IsFailedFetch(e) == e.ev = "fetch" /\ ~e.ok
AllFetchesOk(events) == \A i \in 1..Len(events) : ~IsFailedFetch(events[i])
Returned == pc = "idle" /\ calls >= 1
StartUrl == arg[1]

\* The raw records a page holds, stated from the site alone: one per block
\* that does not raise, in document order, numbered by the block's position.
KeptIndex(p, k) ==
    CHOOSE i \in 1..Len(site[p].blocks) :
        /\ ~site[p].blocks[i].raises
        /\ Cardinality({j \in 1..i : ~site[p].blocks[j].raises}) = k

PageRecords(p) ==
    LET n == Cardinality({j \in 1..Len(site[p].blocks) : ~site[p].blocks[j].raises})
    IN  [k \in 1..n |-> [raw_text         |-> site[p].blocks[KeptIndex(p, k)].text,
                         raw_author       |-> site[p].blocks[KeptIndex(p, k)].author,
                         source_url       |-> p,
                         extraction_order |-> KeptIndex(p, k) - 1]]

\* The records of the successfully fetched pages of a fetch sequence, in order.
RECURSIVE RecordsOfFetches(_)
RecordsOfFetches(fs) ==
    IF fs = <<>> THEN <<>>
    ELSE (IF Head(fs).ok THEN PageRecords(Head(fs).url) ELSE <<>>)
         \o RecordsOfFetches(Tail(fs))

\* The fetch sequence follows the links: it starts at the start URL and each
\* later fetch is of the URL the page before linked to.
FollowsLinks(fs) ==
    /\ fs # <<>> => fs[1].url = StartUrl
    /\ \A i \in 1..(Len(fs) - 1) : fs[i].ok /\ site[fs[i].url].next = Some(fs[i + 1].url)

\* The chain of pages from p along the next links, at most fuel pages long.
RECURSIVE ChainFrom(_, _)
ChainFrom(p, fuel) ==
    IF fuel = 0 THEN <<>>
    ELSE <<p>> \o (IF site[p].next = None THEN <<>>
                   ELSE ChainFrom(Val(site[p].next), fuel - 1))

RECURSIVE RecordsOfPages(_)
RecordsOfPages(ps) ==
    IF ps = <<>> THEN <<>> ELSE PageRecords(Head(ps)) \o RecordsOfPages(Tail(ps))

FetchedUrls == [i \in 1..Len(Fetches(log)) |-> Fetches(log)[i].url]

\* C1: with no page cap, a call in which every fetch succeeded returns only
\* after it has fetched the chain of pages from the start URL to the first page
\* without a next link, each page once and in link order, and it returns the raw
\* records of those pages ordered by page and, within a page, by document order.
C1_ChainFetchedInOrder ==
    (Returned /\ max_pages = None /\ AllFetchesOk(log)) =>
        LET chain == ChainFrom(StartUrl, Len(FetchedUrls))
        IN  /\ FetchedUrls # <<>>
            /\ FetchedUrls = chain
            /\ site[chain[Len(chain)]].next = None
            /\ \A i, j \in 1..Len(chain) : i # j => chain[i] # chain[j]
            /\ ret = RecordsOfPages(chain)
            /\ raw_data = ret
            /\ metrics.total_pages_scraped = Len(chain)
            /\ metrics.total_quotes_extracted = Len(ret)

\* C1 witness: a three-page chain was fetched without a cap, and its pages
\* gave records.
C1_Witness ==
    /\ Returned /\ max_pages = None /\ AllFetchesOk(log)
    /\ Len(FetchedUrls) = 3
    /\ site[FetchedUrls[3]].next = None
    /\ \A i \in 1..3 : site[FetchedUrls[i]].blocks # <<>>
    /\ Len(ret) >= 5

\* C2: with a page cap c >= 1 a call never issues more than c fetches, whatever
\* the links of the site are; it issues exactly c when every fetched page
\* was fetched successfully and carries a next link; with c = 1 it issues
\* exactly one.
C2_CapBoundsFetches ==
    (calls >= 1 /\ max_pages # None /\ Val(max_pages) >= 1) =>
        LET c == Val(max_pages)
            fs == Fetches(log)
        IN  /\ Len(fs) <= c
            /\ (Returned /\ \A i \in 1..Len(fs) : fs[i].ok /\ site[fs[i].url].next # None)
                   => Len(fs) = c
            /\ (Returned /\ c = 1) => Len(fs) = 1

\* C2 witness: a cap of 2 ended a call on a site whose links form a cycle.
C2_Witness ==
    /\ Returned /\ max_pages = Some(2) /\ AllFetchesOk(log)
    /\ Len(Fetches(log)) = 2
    /\ site[FetchedUrls[2]].next = Some(FetchedUrls[1])

\* The behaviour of an unlimited call, as it shows when the call has returned:
\* the start URL was fetched, every later fetch followed the next link of the
\* page before, the last fetch failed or met a page without next link, and the
\* records of the fetched pages are returned.
UnlimitedBehaviour ==
    LET fs == Fetches(log)
    IN  /\ fs # <<>>
        /\ FollowsLinks(fs)
        /\ ~fs[Len(fs)].ok \/ site[fs[Len(fs)].url].next = None
        /\ ret = RecordsOfFetches(fs)

\* C3 as stated: a page cap of zero behaves like no cap.
C3_ZeroCapIsUnlimited ==
    (Returned /\ max_pages \in {None, Some(0)}) => UnlimitedBehaviour

\* C3, amended: a page cap of zero fetches no page and returns no record, and
\* leaves the metrics as they were; only max_pages = None is unlimited.
C3_ZeroCapFetchesNothing ==
    /\ (calls >= 1 /\ max_pages = Some(0)) =>
           /\ log = <<>>
           /\ metrics = metrics0
           /\ Returned => ret = <<>> /\ raw_data = <<>>
    /\ (Returned /\ max_pages = None) => UnlimitedBehaviour

\* C3 witness: a call with cap 0 has returned, from a start page that holds
\* records and a next link.
C3_Witness ==
    /\ Returned /\ max_pages = Some(0)
    /\ site[StartUrl].blocks # <<>>
    /\ site[StartUrl].next # None
    /\ ret = <<>>

\* What the step of a failed fetch does: it adds exactly 1 to
\* errors_encountered, leaves total_pages_scraped, leaves the loop and returns
\* exactly the records accumulated before it.
FailedFetchStep ==
    (Len(log') = Len(log) + 1 /\ IsFailedFetch(log'[Len(log')])) =>
        /\ pc' = "idle"
        /\ metrics'.errors_encountered = metrics.errors_encountered + 1
        /\ metrics'.total_pages_scraped = metrics.total_pages_scraped
        /\ metrics'.total_quotes_extracted = metrics.total_quotes_extracted
        /\ ret' = all_raw_data
        /\ raw_data' = all_raw_data
        /\ ret' = RecordsOfFetches(Fetches(log))

\* A failed fetch is the last event of its call, and the call has returned.
FailureIsLast ==
    \A i \in 1..Len(log) : IsFailedFetch(log[i]) => (i = Len(log) /\ pc = "idle")

\* C4: a failed fetch ends the pagination at once: its step adds exactly 1 to
\* errors_encountered, does not count the page, and returns exactly the records
\* of the pages fetched before; no fetch follows a failed fetch (no retry, no
\* later page).
C4_FetchFailureStops == [][FailedFetchStep]_vars /\ []FailureIsLast

\* C4 witness: the second fetch of a call failed; the call returned the
\* records of the first page.
C4_Witness ==
    /\ Returned
    /\ Len(Fetches(log)) = 2
    /\ Fetches(log)[1].ok /\ ~Fetches(log)[2].ok
    /\ ret # <<>>
    /\ metrics.total_pages_scraped = 1
    /\ metrics.errors_encountered = 1

(***************************************************************************)
(* Calls of the single operations, each on the argument the instance was   *)
(* set up with (arg).                                                      *)
(***************************************************************************)
EmptySite == [p \in Pages |-> [blocks |-> <<>>, next |-> None]]

\* A call of remove_duplicates(arg).
CallRemoveDuplicates ==
    /\ pc = "idle"
    /\ calls = 0
    /\ LET r == remove_duplicates(arg)
       IN  /\ ret' = r.out
           /\ metrics' = [metrics EXCEPT !.duplicate_quotes_removed = @ + r.removed]
    /\ calls' = calls + 1
    /\ metrics0' = metrics
    /\ UNCHANGED <<site, pc, caller, arg, success, max_pages, current_url, page_count,
                   all_raw_data, raw_data, transformed_data, final_data, log>>

\* A call of validate_data(quotes), quotes one of inputs.
CallValidateData(limit, inputs) ==
    /\ pc = "idle"
    /\ calls < limit
    /\ \E quotes \in inputs :
          LET r == validate_data(quotes)
          IN  /\ arg' = quotes
              /\ ret' = r.out
              /\ metrics' = [metrics EXCEPT !.errors_encountered = @ + r.errors]
    /\ calls' = calls + 1
    /\ metrics0' = metrics
    /\ log' = <<>>
    /\ success' = "none"
    /\ UNCHANGED <<site, pc, caller, max_pages, current_url, page_count,
                   all_raw_data, raw_data, transformed_data, final_data>>

\* A call of transform_all_quotes(raw_quotes), raw_quotes one of inputs.
CallTransformAllQuotes(limit, inputs) ==
    /\ pc = "idle"
    /\ calls < limit
    /\ \E raw_quotes \in inputs :
          LET r == transform_all_quotes(raw_quotes, metrics)
          IN  /\ arg' = raw_quotes
              /\ ret' = r.out
              /\ transformed_data' = r.out
              /\ metrics' = r.metrics
    /\ calls' = calls + 1
    /\ metrics0' = metrics
    /\ log' = <<>>
    /\ success' = "none"
    /\ UNCHANGED <<site, pc, caller, max_pages, current_url, page_count,
                   all_raw_data, raw_data, final_data>>

\* A call of clean_quote_text: the first on arg, a later one on the text the
\* call before returned.
CallCleanQuoteText ==
    /\ pc = "idle"
    /\ calls < 2
    /\ arg' = IF calls = 0 THEN arg ELSE ret
    /\ ret' = clean_quote_text(arg')
    /\ calls' = calls + 1
    /\ UNCHANGED <<site, pc, caller, success, max_pages, current_url, page_count,
                   all_raw_data, metrics, raw_data, transformed_data, final_data, log,
                   metrics0>>

(***************************************************************************)
(* SpecDedup: remove_duplicates on every list of up to MaxDedupLen clean   *)
(* records whose keys collide by letter case.                              *)
(***************************************************************************)
MaxDedupLen == 4

CleanRecord(text, author, order) ==
    [quote_text |-> text, author |-> author, source_url |-> 1,
     extraction_order |-> order, word_count |-> WordCount(text),
     character_count |-> Len(text)]

\* All lists of at most n elements of S.
RECURSIVE ListsUpTo(_, _)
ListsUpTo(S, n) ==
    IF n = 0 THEN {<<>>}
    ELSE LET shorter == ListsUpTo(S, n - 1)
         IN  shorter \cup {<<x>> \o l : x \in S, l \in shorter}

DedupRecords ==
    {CleanRecord(t, a, 0) : t \in {<<cLowA>>, <<cUpA>>, <<cLowB>>},
                            a \in {<<cLowA, cLowB>>, <<cUpA, cLowB>>}}

InitDedup == \E qs \in ListsUpTo(DedupRecords, MaxDedupLen) : Construct(EmptySite, qs)

NextDedup == CallRemoveDuplicates

SpecDedup == InitDedup /\ [][NextDedup]_vars

\* The key of the claim: lowercased quote_text, lowercased author.
ClaimKey(q) == <<Lower(q.quote_text), Lower(q.author)>>

\* The positions of a list that hold the first record of their key.
FirstOfKey(qs) == {i \in 1..Len(qs) : \A j \in 1..(i - 1) : ClaimKey(qs[j]) # ClaimKey(qs[i])}

\* The elements of qs at the positions I, in the order of qs.
Pick(qs, I) ==
    [k \in 1..Cardinality(I) |->
        qs[CHOOSE i \in I : Cardinality({j \in I : j <= i}) = k]]

\* C5: for N records with K distinct keys remove_duplicates returns exactly K
\* records, each the earliest record of its key, in the order of the input,
\* and adds exactly N - K to duplicate_quotes_removed.
C5_DedupKeepsFirstOfKey ==
    Returned =>
        LET N == Len(arg)
            K == Cardinality({ClaimKey(arg[i]) : i \in 1..N})
        IN  /\ Len(ret) = K
            /\ ret = Pick(arg, FirstOfKey(arg))
            /\ metrics.duplicate_quotes_removed = metrics0.duplicate_quotes_removed + (N - K)

\* C5 witness: four records, two keys, of which the second differs from the
\* first by letter case only; two records were dropped.
C5_Witness ==
    /\ Returned
    /\ Len(arg) = 4
    /\ arg[1] # arg[2] /\ ClaimKey(arg[1]) = ClaimKey(arg[2])
    /\ Len(ret) = 2
    /\ ret[1] = arg[1]
    /\ metrics.duplicate_quotes_removed = 2

(***************************************************************************)
(* SpecValidate: validate_data on every list of up to MaxValidateLen       *)
(* records whose fields sit on both sides of each length bound, bare and   *)
(* padded with one blank.                                                  *)
(***************************************************************************)
MaxValidateLen == 2

Repeat(c, n) == [i \in 1..n |-> c]

\* A body of n letters: bare, with a leading blank, with a trailing blank.
Padded(n) ==
    {Repeat(cLowA, n), <<cSP>> \o Repeat(cLowA, n), Repeat(cLowA, n) \o <<cSP>>}

ValidateTexts ==
    UNION {Padded(n) : n \in {0, MinTextLen - 1, MinTextLen, MaxTextLen - 1, MaxTextLen}}

ValidateAuthors ==
    {<<>>, Repeat(cLowA, MinAuthorLen - 1), <<cSP>> \o Repeat(cLowA, MinAuthorLen - 1),
     Repeat(cLowA, MinAuthorLen)}

ValidateRecords == {CleanRecord(t, a, 0) : t \in ValidateTexts, a \in ValidateAuthors}

InitValidate ==
    \E qs \in ListsUpTo(ValidateRecords, MaxValidateLen) : Construct(EmptySite, qs)

NextValidate == CallValidateData(1, {arg})

SpecValidate == InitValidate /\ [][NextValidate]_vars

\* The acceptance condition of the claim: lengths of the stored fields.
AcceptsStored(q) ==
    /\ 5 <= Len(q.quote_text) /\ Len(q.quote_text) <= 1000
    /\ Len(q.author) >= 2

\* The lower bounds on the whitespace-trimmed fields, the upper bound on the
\* stored text.
AcceptsTrimmed(q) ==
    /\ 5 <= Len(Strip(q.quote_text)) /\ Len(q.quote_text) <= 1000
    /\ Len(Strip(q.author)) >= 2

\* C6 as stated: validate_data returns, unmodified and in input order, exactly
\* the records with 5 <= len(quote_text) <= 1000 and len(author) >= 2, the
\* lengths taken on the stored fields, and counts one error per dropped record.
C6_FilterOnStoredLengths ==
    Returned =>
        /\ ret = SelectSeq(arg, AcceptsStored)
        /\ metrics.errors_encountered =
               metrics0.errors_encountered + (Len(arg) - Len(ret))

\* C6, amended: validate_data returns, unmodified and in input order, exactly
\* the records with len(quote_text.strip()) >= 5, len(quote_text) <= 1000 and
\* len(author.strip()) >= 2, and counts one error per dropped record.
C6_FilterOnTrimmedLengths ==
    Returned =>
        /\ ret = SelectSeq(arg, AcceptsTrimmed)
        /\ metrics.errors_encountered =
               metrics0.errors_encountered + (Len(arg) - Len(ret))

\* C6 witness: of two records the first, whose text is five characters long
\* with its leading blank, was dropped and the second, of 1000 characters,
\* was kept.
C6_Witness ==
    /\ Returned
    /\ Len(arg) = 2
    /\ Len(arg[1].quote_text) = 5 /\ arg[1].quote_text[1] = cSP
    /\ Len(arg[1].author) >= 2
    /\ Len(arg[2].quote_text) = 1000
    /\ ret = <<arg[2]>>
    /\ metrics.errors_encountered = 1

(***************************************************************************)
(* SpecTransform: transform_all_quotes on every list of up to              *)
(* MaxTransformLen raw records, among them records whose text or author    *)
(* is absent, blank, or cleaned away.                                      *)
(***************************************************************************)
MaxTransformLen == 3

TransformTexts == {<<>>, <<cSP, cLF>>, TextA, TextB}
TransformAuthors == {<<>>, <<cBang>>, AuthorA, AuthorB}

TransformRecords ==
    {RawRecord(Block(t, a, FALSE), 1, 0) : t \in TransformTexts, a \in TransformAuthors}

InitTransform ==
    \E rs \in ListsUpTo(TransformRecords, MaxTransformLen) : Construct(EmptySite, rs)

NextTransform == CallTransformAllQuotes(1, {arg})

SpecTransform == InitTransform /\ [][NextTransform]_vars

\* A raw record whose cleaned text and cleaned author are both non-empty.
CleansToContent(r) ==
    clean_quote_text(r.raw_text) # <<>> /\ clean_author_name(r.raw_author) # <<>>

\* C7: a raw record whose cleaned text or cleaned author is empty yields no
\* clean record and no error, and the other records of the batch are still
\* transformed: every record of transformed_data has non-empty quote_text and
\* author, errors_encountered is unchanged, and the records kept plus the
\* duplicates dropped are as many as the raw records that clean to content,
\* each of which has its text and author in the result.
C7_BlankFieldsDroppedSilently ==
    Returned =>
        /\ transformed_data = ret
        /\ \A i \in 1..Len(ret) : ret[i].quote_text # <<>> /\ ret[i].author # <<>>
        /\ metrics.errors_encountered = metrics0.errors_encountered
        /\ Len(ret) + (metrics.duplicate_quotes_removed - metrics0.duplicate_quotes_removed)
               = Cardinality({i \in 1..Len(arg) : CleansToContent(arg[i])})
        /\ \A i \in 1..Len(arg) : CleansToContent(arg[i]) =>
               \E j \in 1..Len(ret) :
                   /\ Lower(ret[j].quote_text) = Lower(clean_quote_text(arg[i].raw_text))
                   /\ Lower(ret[j].author) = Lower(clean_author_name(arg[i].raw_author))

\* C7 witness: a block without author between two good blocks; both good
\* blocks were transformed.
C7_Witness ==
    /\ Returned
    /\ Len(arg) = 3
    /\ arg[1].raw_author # <<>> /\ arg[2].raw_author = <<>> /\ arg[2].raw_text = TextA
    /\ Len(ret) = 2
    /\ ret[2].quote_text = clean_quote_text(arg[3].raw_text)
    /\ metrics.errors_encountered = 0

(***************************************************************************)
(* SpecClean: clean_quote_text, twice, on every text of up to              *)
(* MaxCleanTokens pieces: blanks, line feeds, letters, the curly quotes    *)
(* and the two literals of line 199.                                       *)
(***************************************************************************)
MaxCleanTokens == 5

CleanTokens ==
    {<<cSP>>, <<cLF>>, <<cLowA>>, <<cLDQ>>, <<cRDQ>>, OpenQuoteLiteral, CloseQuoteLiteral}

RECURSIVE Concats(_)
Concats(n) ==
    IF n = 0 THEN {<<>>}
    ELSE LET shorter == Concats(n - 1)
         IN  shorter \cup {t \o x : t \in CleanTokens, x \in shorter}

InitClean == \E x \in Concats(MaxCleanTokens) : Construct(EmptySite, x)

NextClean == CallCleanQuoteText

SpecClean == InitClean /\ [][NextClean]_vars

LoadEffect(quotes, before) ==
    \E csv_ok, json_ok, report_ok \in BOOLEAN :
        LET r == load_data(quotes, metrics, csv_ok, json_ok, report_ok)
        IN  /\ metrics' = r.metrics
            /\ final_data' = IF r.wrote THEN r.valid ELSE final_data
            /\ log' = before \o <<StageEv("load")>>
                      \o (IF r.wrote
                          THEN <<WriteEv("csv", csv_ok), WriteEv("json", json_ok),
                                 WriteEv("report", report_ok)>>
                          ELSE <<>>)
            /\ success' = Bool(r.result)

\* A call of load_data(quotes), quotes one of inputs.
CallLoadData(limit, inputs) ==
    /\ pc = "idle"
    /\ calls < limit
    /\ \E quotes \in inputs : arg' = quotes /\ LoadEffect(quotes, <<>>)
    /\ calls' = calls + 1
    /\ metrics0' = metrics
    /\ ret' = <<>>
    /\ UNCHANGED <<site, pc, caller, max_pages, current_url, page_count,
                   all_raw_data, raw_data, transformed_data>>

\* A call of run_etl_pipeline(start_url, max_pages): it enters extract_all_pages
\* (line 567).
CallRunEtlPipeline(limit) ==
    /\ pc = "idle"
    /\ calls < limit
    /\ \E start \in Pages, cap \in Caps :
          BeginExtract(start, cap, "pipeline", <<StageEv("extract")>>)

\* Lines 573-576: the transform stage of run_etl_pipeline.
PipelineTransform ==
    /\ pc = "transform"
    /\ LET r == transform_all_quotes(raw_data, metrics)
       IN  /\ transformed_data' = r.out
           /\ metrics' = r.metrics
           /\ IF r.out = <<>>
              THEN pc' = "idle" /\ success' = "False"
              ELSE pc' = "load" /\ success' = success
    /\ log' = Append(log, StageEv("transform"))
    /\ UNCHANGED <<site, caller, arg, ret, calls, max_pages, current_url, page_count,
                   all_raw_data, raw_data, final_data, metrics0>>

\* Lines 579-585: the load stage of run_etl_pipeline.
PipelineLoad ==
    /\ pc = "load"
    /\ LoadEffect(transformed_data, log)
    /\ pc' = "idle"
    /\ UNCHANGED <<site, caller, arg, ret, calls, max_pages, current_url, page_count,
                   all_raw_data, raw_data, transformed_data, metrics0>>

(***************************************************************************)
(* SpecPipeline: one call of run_etl_pipeline on a fresh instance, over    *)
(* the sites of NPipelinePages pages; the pages beyond are blank, so a run *)
(* started there extracts nothing.                                         *)
(***************************************************************************)
NPipelinePages == 2

PipelineContents ==
    {<<BlockNoAuth, BlockNoText>>, <<BlockShort>>, <<BlockA, BlockB>>}

InitPipeline == \E s \in Sites(NPipelinePages, PipelineContents) : Construct(s, <<>>)

NextPipeline ==
    \/ CallRunEtlPipeline(1)
    \/ FetchOk
    \/ FetchFail
    \/ LoopExit
    \/ PipelineTransform
    \/ PipelineLoad

SpecPipeline == InitPipeline /\ [][NextPipeline]_vars

IsWrite(e) == e.ev = "write"
Writes(events) == SelectSeq(events, IsWrite)
IsLoadStage(e) == e.ev = "stage" /\ e.stage = "load"
LoadEntered(events) == \E i \in 1..Len(events) : IsLoadStage(events[i])
WriteOk(events, file) ==
    \E i \in 1..Len(events) :
        events[i].ev = "write" /\ events[i].file = file /\ events[i].ok

\* C9: run_etl_pipeline reports success exactly when extraction returned a
\* raw record, transform returned a clean record, and the three writes were
\* all attempted and all succeeded; when extraction or transform yields nothing
\* the load stage is not entered and nothing is written; and when one write is
\* attempted all three are, whatever the outcome of each.
C9_SuccessIffAllWritten ==
    (Returned /\ caller = "pipeline") =>
        /\ success \in {"True", "False"}
        /\ success = "True" <=>
               /\ raw_data # <<>>
               /\ transformed_data # <<>>
               /\ Len(Writes(log)) = 3
               /\ WriteOk(log, "csv") /\ WriteOk(log, "json") /\ WriteOk(log, "report")
        /\ (raw_data = <<>> \/ transformed_data = <<>>) =>
               ~LoadEntered(log) /\ Writes(log) = <<>>
        /\ Writes(log) # <<>> =>
               /\ Len(Writes(log)) = 3
               /\ {Writes(log)[i].file : i \in 1..3} = {"csv", "json", "report"}

\* C9 witness: the CSV write failed, the two other writes were still made and
\* succeeded, and the run reports failure.
C9_Witness ==
    /\ Returned /\ caller = "pipeline"
    /\ Len(Writes(log)) = 3
    /\ ~Writes(log)[1].ok /\ Writes(log)[2].ok /\ Writes(log)[3].ok
    /\ success = "False"

(***************************************************************************)
(* SpecLifetime: up to MaxCalls calls, in any order, of extract_all_pages, *)
(* transform_all_quotes, validate_data, load_data and run_etl_pipeline on  *)
(* one instance.                                                           *)
(***************************************************************************)
LifetimeContents ==
    {<<BlockA, BlockB>>, <<BlockRaises, BlockA, BlockShort>>}

InitLifetime == \E s \in Sites(NPipelinePages, LifetimeContents) : Construct(s, <<>>)

\* The lists the raw data at hand offers as an argument: its prefixes.
Prefixes(l) == {SubSeq(l, 1, n) : n \in 0..Len(l)}

NextLifetime ==
    \/ CallExtractAllPages(MaxCalls)
    \/ CallRunEtlPipeline(MaxCalls)
    \/ CallTransformAllQuotes(MaxCalls, Prefixes(raw_data))
    \/ CallValidateData(MaxCalls, {transformed_data})
    \/ CallLoadData(MaxCalls, {transformed_data})
    \/ FetchOk
    \/ FetchFail
    \/ LoopExit
    \/ PipelineTransform
    \/ PipelineLoad

SpecLifetime == InitLifetime /\ [][NextLifetime]_vars

NonDecreasing(counter) == metrics'[counter] >= metrics[counter]

\* C10 as stated: no step of any call lowers any of the five counters.
C10_AllCountersMonotone ==
    [][\A c \in DOMAIN metrics : NonDecreasing(c)]_vars

\* C10, amended: no step of any call lowers total_pages_scraped,
\* total_quotes_extracted, errors_encountered or duplicate_quotes_removed;
\* total_quotes_cleaned is not lowered during the first call on an instance,
\* and a later step changes it only by setting it to the number of records
\* transform_all_quotes has just returned.
C10_CountersMonotoneButCleaned ==
    [][/\ \A c \in {"total_pages_scraped", "total_quotes_extracted",
                    "errors_encountered", "duplicate_quotes_removed"} : NonDecreasing(c)
       /\ calls' = 1 => NonDecreasing("total_quotes_cleaned")
       /\ metrics'.total_quotes_cleaned # metrics.total_quotes_cleaned =>
              metrics'.total_quotes_cleaned = Len(transformed_data')]_vars

\* C10 witness: a second call has left total_quotes_cleaned below the
\* duplicates and pages counted over both calls.
C10_Witness ==
    /\ Returned /\ calls = 2
    /\ metrics.total_quotes_cleaned = 1
    /\ metrics.total_pages_scraped >= 3
    /\ metrics.duplicate_quotes_removed >= 1
    /\ metrics.errors_encountered >= 1

(***************************************************************************)
(* SpecEndToEnd: one call of run_etl_pipeline on a fresh instance, over    *)
(* the sites of NPipelinePages pages whose blocks are all well-formed and  *)
(* all pass validation.  Two of the blocks differ as written (letter case, *)
(* doubled space) and agree once cleaned and lowercased.                   *)
(***************************************************************************)
TextAVariant == <<cUpA, cLowB, cSP, cSP, cLowA, cLowB, cLowA>>
BlockAVariant == Block(TextAVariant, AuthorA, FALSE)

EndToEndContents ==
    {<<BlockA, BlockB>>, <<BlockA, BlockC>>, <<BlockAVariant, BlockB>>}

InitEndToEnd == \E s \in Sites(NPipelinePages, EndToEndContents) : Construct(s, <<>>)

NextEndToEnd ==
    \/ CallRunEtlPipeline(1)
    \/ FetchOk
    \/ FetchFail
    \/ LoopExit
    \/ PipelineTransform
    \/ PipelineLoad

SpecEndToEnd == InitEndToEnd /\ [][NextEndToEnd]_vars

\* The record blocks of the fetched pages, in the order of the fetches.
RECURSIVE BlocksOfFetches(_)
BlocksOfFetches(fs) ==
    IF fs = <<>> THEN <<>>
    ELSE (IF Head(fs).ok THEN site[Head(fs).url].blocks ELSE <<>>)
         \o BlocksOfFetches(Tail(fs))

FetchedBlocks == BlocksOfFetches(Fetches(log))

\* A block is well-formed and passes validation: its extraction does not
\* raise, both its fields clean to content, and the clean record is valid.
PassesAll(b) ==
    /\ ~b.raises
    /\ LET clean == transform_single_quote(RawRecord(b, 1, 0))
       IN  clean # None /\ IsValid(Val(clean))

\* The key of a block: its cleaned text and cleaned author, lowercased.
BlockKey(b) == <<Lower(clean_quote_text(b.text)), Lower(clean_author_name(b.author))>>

\* The keys of a list of blocks, in order.
RECURSIVE KeysOfBlocks(_)
KeysOfBlocks(bs) ==
    IF bs = <<>> THEN <<>> ELSE <<BlockKey(Head(bs))>> \o KeysOfBlocks(Tail(bs))

\* The positions of a list of keys that repeat an earlier position's key.
RepeatsEarlier(ks) ==
    {i \in 1..Len(ks) : \E j \in 1..(i - 1) : ks[j] = ks[i]}

\* C11: after a complete run of run_etl_pipeline in which every fetch
\* succeeded and every block of the fetched pages is well-formed and passes
\* validation, total_quotes_extracted is the number of record blocks on the
\* fetched pages, duplicate_quotes_removed is the number of those blocks whose
\* key repeats an earlier block's, and the validated output holds exactly
\* total_quotes_extracted - duplicate_quotes_removed records.
C11_EndToEndCounts ==
    (/\ Returned /\ caller = "pipeline"
     /\ LoadEntered(log)
     /\ AllFetchesOk(log)) =>
        LET blocks == FetchedBlocks
        IN  (\A b \in {blocks[i] : i \in 1..Len(blocks)} : PassesAll(b)) =>
                /\ metrics.total_quotes_extracted = Len(blocks)
                /\ metrics.duplicate_quotes_removed =
                       Cardinality(RepeatsEarlier(KeysOfBlocks(blocks)))
                /\ Len(final_data) =
                       metrics.total_quotes_extracted - metrics.duplicate_quotes_removed
                /\ metrics.total_quotes_cleaned = Len(final_data)
                /\ metrics.errors_encountered = 0

\* C11 witness: two pages of 2 blocks each were fetched, one block of the
\* first page is repeated verbatim on the second, and the run ended with 4
\* extracted, 1 duplicate removed and 3 validated records.
C11_Witness ==
    /\ Returned /\ caller = "pipeline" /\ success = "True"
    /\ Len(Fetches(log)) = 2 /\ AllFetchesOk(log)
    /\ Len(FetchedBlocks) = 4
    /\ FetchedBlocks[3] = FetchedBlocks[1]
    /\ metrics.total_quotes_extracted = 4
    /\ metrics.duplicate_quotes_removed = 1
    /\ Len(final_data) = 3

(***************************************************************************)
(* The politeness delay of extract_all_pages (lines 179-181), read from    *)
(* the history of a finished call under SpecExtract.                       *)
(***************************************************************************)
IsSleep(e) == e.ev = "sleep"
IsFetchOrSleep(e) == IsFetch(e) \/ IsSleep(e)
Requests(events) == SelectSeq(events, IsFetchOrSleep)

\* Every delay of the history is immediately followed by a fetch of the URL
\* the page fetched just before linked to.
DelayThenFetch(events) ==
    \A i \in 1..Len(events) :
        IsSleep(events[i]) =>
            /\ i > 1 /\ IsFetch(events[i - 1])
            /\ i < Len(events) /\ IsFetch(events[i + 1])
            /\ Some(events[i + 1].url) = site[events[i - 1].url].next

\* Between any two consecutive fetches of the history exactly one delay occurs.
OneDelayBetweenFetches(events) ==
    \A i \in 1..Len(events) :
        (IsFetch(events[i]) /\ \E j \in (i + 1)..Len(events) : IsFetch(events[j])) =>
            /\ i + 2 <= Len(events)
            /\ IsSleep(events[i + 1])
            /\ IsFetch(events[i + 2])

\* C12: in a finished call of extract_all_pages every delay is immediately
\* followed by a fetch of the next-page URL, so that no delay is taken on the
\* pass that ends pagination (not even when the page cap has just been
\* reached while a next link exists), and between any two consecutive
\* fetches exactly one delay occurs.
C12_DelayOnlyBeforeFetch ==
    Returned =>
        /\ DelayThenFetch(Requests(log))
        /\ OneDelayBetweenFetches(Requests(log))

=============================================================================
